---- MODULE Spec2Model ----
(***************************************************************************)
(* A model of fnmatch-regex: glob_to_regex (src/src/glob.rs) as a state    *)
(* machine that consumes the pattern one character per step, with its     *)
(* helper routines as operators, and the regular expression it emits      *)
(* interpreted by the syntax and semantics of the regex crate.            *)
(*                                                                         *)
(* Characters are their code points; strings are sequences of characters. *)
(***************************************************************************)
EXTENDS Integers, Sequences, FiniteSets, TLC

VARIABLES pattern, pos, state, res, result

\* The fields of a TryFlattenImpl (it, ready, inner), the sequence the wrapped
\* iterator was made of, the value of the last next() call and the items
\* the calls have returned so far.
VARIABLES outer, it, ready, inner, returned, yielded

globVars == <<pattern, pos, state, res, result>>
flattenVars == <<outer, it, ready, inner, returned, yielded>>
vars == <<pattern, pos, state, res, result,
          outer, it, ready, inner, returned, yielded>>

(***************************************************************************)
(* Characters.                                                             *)
(***************************************************************************)

\* The printable ASCII characters, code points 32 to 126, in order.
Printable ==
    << " ", "!", "\"", "#", "$", "%", "&", "'", "(", ")", "*", "+", ",", "-",
       ".", "/", "0", "1", "2", "3", "4", "5", "6", "7", "8", "9", ":", ";",
       "<", "=", ">", "?", "@", "A", "B", "C", "D", "E", "F", "G", "H", "I",
       "J", "K", "L", "M", "N", "O", "P", "Q", "R", "S", "T", "U", "V", "W",
       "X", "Y", "Z", "[", "\\", "]", "^", "_", "grave", "a", "b", "c", "d", "e",
       "f", "g", "h", "i", "j", "k", "l", "m", "n", "o", "p", "q", "r", "s",
       "t", "u", "v", "w", "x", "y", "z", "{", "|", "}", "~" >>

\* The code point of a printable character, as Rust's char ordering has it.
Ord(c) == 31 + (CHOOSE i \in 1..Len(Printable) : Printable[i] = c)

\* A string literal of the source, written as a tuple of one-character strings.
Str(t) == [i \in 1..Len(t) |-> Ord(t[i])]

Backslash == Ord("\\")
Slash     == Ord("/")
Dot       == Ord(".")
Zero      == Ord("0")
Dash      == Ord("-")
Bang      == Ord("!")
Caret     == Ord("^")
Dollar    == Ord("$")
Star      == Ord("*")
Plus      == Ord("+")
Quest     == Ord("?")
Comma     == Ord(",")
Pipe      == Ord("|")
LParen    == Ord("(")
RParen    == Ord(")")
LBracket  == Ord("[")
RBracket  == Ord("]")
LBrace    == Ord("{")
RBrace    == Ord("}")
Amp       == Ord("&")
Tilde     == Ord("~")
Newline   == 10

(***************************************************************************)
(* Generic helpers standing for Rust's collection operations.              *)
(***************************************************************************)

Range1(s) == {s[i] : i \in 1..Len(s)}

Min(S) == CHOOSE x \in S : \A y \in S : x <= y

\* Vec<char>::sort_unstable on the elements of a set.
RECURSIVE SortChars(_)
SortChars(S) ==
    IF S = {} THEN <<>> ELSE <<Min(S)>> \o SortChars(S \ {Min(S)})

\* The order of (char, char) tuples: lexicographic.
PairLeq(p, q) == p[1] < q[1] \/ (p[1] = q[1] /\ p[2] <= q[2])

RECURSIVE SortPairs(_)
SortPairs(S) ==
    IF S = {} THEN <<>>
    ELSE LET m == CHOOSE p \in S : \A q \in S : PairLeq(p, q)
         IN  <<m>> \o SortPairs(S \ {m})

\* The order of Strings: lexicographic by character, a proper prefix first.
RECURSIVE StrLeq(_, _)
StrLeq(a, b) ==
    IF a = <<>> THEN TRUE
    ELSE IF b = <<>> THEN FALSE
    ELSE IF Head(a) # Head(b) THEN Head(a) < Head(b)
    ELSE StrLeq(Tail(a), Tail(b))

RECURSIVE SortStrings(_)
SortStrings(S) ==
    IF S = {} THEN <<>>
    ELSE LET m == CHOOSE p \in S : \A q \in S : StrLeq(p, q)
         IN  <<m>> \o SortStrings(S \ {m})

\* [String]::join
RECURSIVE Join(_, _)
Join(strs, sep) ==
    IF strs = <<>> THEN <<>>
    ELSE IF Len(strs) = 1 THEN strs[1]
    ELSE strs[1] \o sep \o Join(Tail(strs), sep)

(***************************************************************************)
(* The helpers of glob.rs.                                                 *)
(***************************************************************************)

\* ClassItem
Char(c) == [type |-> "Char", start |-> c, end |-> c]
Range(s, e) == [type |-> "Range", start |-> s, end |-> e]

\* ClassAccumulator
ClassAccumulator(negated, items) == [negated |-> negated, items |-> items]

\* The characters push_escaped_in_class escapes.
ClassEscaped == {RBracket, Backslash}

push_escaped_in_class(buf, chr) ==
    IF chr \in ClassEscaped THEN buf \o <<Backslash, chr>> ELSE buf \o <<chr>>

\* The characters push_escaped escapes: "[{(|^$.*?+\\".
GeneralEscaped ==
    {LBracket, LBrace, LParen, Pipe, Caret, Dollar, Dot, Star, Quest, Plus,
     Backslash}

push_escaped(buf, chr) ==
    IF chr \in GeneralEscaped THEN buf \o <<Backslash, chr>> ELSE buf \o <<chr>>

\* A variant that knows only the six letters the module documentation
\* lists (a, b, e, n, r, v); C15 tells it from map_letter_escape.
map_letter_escape_six(chr) ==
    CASE chr = Ord("a") -> 7
      [] chr = Ord("b") -> 8
      [] chr = Ord("e") -> 27
      [] chr = Ord("n") -> 10
      [] chr = Ord("r") -> 13
      [] chr = Ord("v") -> 11
      [] OTHER -> chr

map_letter_escape(chr) ==
    CASE chr = Ord("a") -> 7
      [] chr = Ord("b") -> 8
      [] chr = Ord("e") -> 27
      [] chr = Ord("f") -> 12
      [] chr = Ord("n") -> 10
      [] chr = Ord("r") -> 13
      [] chr = Ord("t") -> 9
      [] chr = Ord("v") -> 11
      [] OTHER -> chr

push_escaped_special(buf, chr) == push_escaped(buf, map_letter_escape(chr))

\* A variant that drops a standalone `/` but leaves every range whole; C7
\* tells it from ExcludeItem.
ExcludeItemUnsplit(cls) ==
    IF cls.type = "Char" /\ cls.start = Slash THEN <<>> ELSE <<cls>>

\* One arm of the match in handle_slash_exclude: what is pushed for one item.
\* The arms are tried in the order of the source.
ExcludeItem(cls) ==
    IF cls.type = "Char"
    THEN IF cls.start = Slash THEN <<>> ELSE <<cls>>
    ELSE CASE cls.start = Dot /\ cls.end = Slash -> <<Char(Dot)>>
           [] cls.start # Dot /\ cls.end = Slash -> <<Range(cls.start, Dot)>>
           [] cls.start = Slash /\ cls.end = Zero -> <<Char(Zero)>>
           [] cls.start = Slash /\ cls.end # Zero /\ cls.end # Slash ->
                  <<Range(Zero, cls.end)>>
           [] cls.start # Slash /\ cls.end # Slash
              /\ (cls.start > Slash \/ cls.end < Slash) -> <<cls>>
           [] OTHER ->
                  (IF cls.start = Dot THEN <<Char(Dot)>>
                   ELSE <<Range(cls.start, Dot)>>)
                  \o (IF cls.end = Zero THEN <<Char(Zero)>>
                      ELSE <<Range(Zero, cls.end)>>)

RECURSIVE ExcludeItems(_)
ExcludeItems(items) ==
    IF items = <<>> THEN <<>>
    ELSE ExcludeItem(Head(items)) \o ExcludeItems(Tail(items))

handle_slash_exclude(acc) ==
    [acc EXCEPT !.items = ExcludeItems(acc.items)]

\* The closure of handle_slash_include: does the item cover the slash?
CoversSlash(item) ==
    IF item.type = "Char" THEN item.start = Slash
    ELSE item.start <= Slash /\ item.end >= Slash

handle_slash_include(acc) ==
    IF \E i \in 1..Len(acc.items) : CoversSlash(acc.items[i])
    THEN acc
    ELSE [acc EXCEPT !.items = acc.items \o <<Char(Slash)>>]

handle_slash(acc) ==
    IF acc.negated THEN handle_slash_include(acc) ELSE handle_slash_exclude(acc)

\* The standalone characters of the items, as a HashSet<char>.
CharsSet(items) ==
    {items[i].start : i \in {j \in 1..Len(items) : items[j].type = "Char"}}

\* The ranges of the items, as a HashSet<(char, char)>.
ClassesSet(items) ==
    {<<items[i].start, items[i].end>> :
        i \in {j \in 1..Len(items) : items[j].type = "Range"}}

RECURSIVE PushChars(_, _)
PushChars(buf, chars) ==
    IF chars = <<>> THEN buf
    ELSE PushChars(push_escaped_in_class(buf, Head(chars)), Tail(chars))

RECURSIVE PushClasses(_, _)
PushClasses(buf, classes) ==
    IF classes = <<>> THEN buf
    ELSE PushClasses(
             push_escaped_in_class(
                 push_escaped_in_class(buf, Head(classes)[1]) \o <<Dash>>,
                 Head(classes)[2]),
             Tail(classes))

\* A variant that writes the items in the order given, neither sorted nor
\* deduplicated; C8 tells it from close_class.
RECURSIVE PushItems(_, _)
PushItems(buf, items) ==
    IF items = <<>> THEN buf
    ELSE PushItems(
             IF Head(items).type = "Char"
             THEN push_escaped_in_class(buf, Head(items).start)
             ELSE push_escaped_in_class(
                      push_escaped_in_class(buf, Head(items).start) \o <<Dash>>,
                      Head(items).end),
             Tail(items))

close_class_unsorted(glob_acc) ==
    PushItems(<<LBracket>> \o (IF glob_acc.negated THEN <<Caret>> ELSE <<>>),
              handle_slash(glob_acc).items) \o <<RBracket>>

\* A variant that sorts a standalone dash among the other characters; C21
\* tells it from close_class.
close_class_dash_sorted(glob_acc) ==
    PushClasses(
        PushChars(<<LBracket>> \o (IF glob_acc.negated THEN <<Caret>> ELSE <<>>),
                  SortChars(CharsSet(handle_slash(glob_acc).items))),
        SortPairs(ClassesSet(handle_slash(glob_acc).items))) \o <<RBracket>>

close_class(glob_acc) ==
    LET acc      == handle_slash(glob_acc)
        has_dash == Dash \in CharsSet(acc.items)
        chars    == SortChars(CharsSet(acc.items) \ {Dash})
        classes  == SortPairs(ClassesSet(acc.items))
        open     == <<LBracket>> \o (IF acc.negated THEN <<Caret>> ELSE <<>>)
        body     == PushClasses(PushChars(open, chars), classes)
    IN  body \o (IF has_dash THEN <<Dash>> ELSE <<>>) \o <<RBracket>>

RECURSIVE EscapeString(_, _)
EscapeString(buf, item) ==
    IF item = <<>> THEN buf
    ELSE EscapeString(push_escaped(buf, Head(item)), Tail(item))

\* A variant that joins the escaped branches in the order given, neither
\* sorted nor deduplicated; C9 tells it from close_alternate.
close_alternate_unsorted(gathered) ==
    <<LParen>>
        \o Join([i \in 1..Len(gathered) |-> EscapeString(<<>>, gathered[i])],
                <<Pipe>>)
        \o <<RParen>>

close_alternate(gathered) ==
    LET items == SortStrings({EscapeString(<<>>, s) : s \in Range1(gathered)})
    IN  <<LParen>> \o Join(items, <<Pipe>>) \o <<RParen>>

(***************************************************************************)
(* The regular expression engine: Regex::new and Regex::is_match of the    *)
(* regex crate, for the syntax glob_to_regex can emit.  The expression is  *)
(* parsed by recursive descent, and each sub-expression is given the set   *)
(* of texts it matches: a match is a record [b, w, e], the characters w    *)
(* it consumes, whether it has to begin where the haystack begins (b, set  *)
(* by ^) and whether it has to end where the haystack ends (e, set by $).  *)
(* Only the texts over cx.sigma of at most cx.max characters are kept.     *)
(***************************************************************************)

Cx(re, sigma, max) == [re |-> re, sigma |-> sigma, max |-> max]

\* The character of the expression at p, or -1 at its end.
At(cx, p) == IF p <= Len(cx.re) THEN cx.re[p] ELSE -1

\* regex_syntax::is_meta_character: the characters a backslash may precede.
MetaChars ==
    {Backslash, Dot, Plus, Star, Quest, LParen, RParen, Pipe, LBracket,
     RBracket, LBrace, RBrace, Caret, Dollar, Ord("#"), Amp, Dash, Tilde}

Eps == [b |-> FALSE, w |-> <<>>, e |-> FALSE]
Lit(c) == [b |-> FALSE, w |-> <<c>>, e |-> FALSE]
Failed(p) == [ok |-> FALSE, next |-> p, lang |-> {}]

\* Concatenation: an end anchor admits nothing after it, a start anchor
\* nothing before it.
Cat(A, B, max) ==
    {[b |-> x.b \/ y.b, w |-> x.w \o y.w, e |-> x.e \/ y.e] :
        <<x, y>> \in {q \in A \X B :
                        /\ Len(q[1].w) + Len(q[2].w) <= max
                        /\ q[1].e => q[2].w = <<>>
                        /\ q[2].b => q[1].w = <<>>}}

\* Zero or more repetitions: the least set holding Eps and closed under
\* appending one more match.
RECURSIVE StarIter(_, _, _)
RECURSIVE StarStep(_, _, _, _)
StarIter(S, A, max) == StarStep(S, S \cup Cat(S, A, max), A, max)

StarStep(S, T, A, max) == IF T = S THEN S ELSE StarIter(T, A, max)

StarOf(A, max) == StarIter({Eps}, A, max)

\* One item of a bracketed class: an escaped or a verbatim character.
ClassItemAt(cx, p) ==
    IF At(cx, p) = Backslash
    THEN [ok |-> At(cx, p + 1) \in MetaChars, next |-> p + 2, c |-> At(cx, p + 1)]
    ELSE [ok |-> p <= Len(cx.re), next |-> p + 1, c |-> At(cx, p)]

ApplyOp(lhs, op, un) ==
    CASE op = "none" -> un
      [] op = "&&" -> lhs \cap un
      [] op = "--" -> lhs \ un
      [] op = "~~" -> (lhs \ un) \cup (un \ lhs)

\* The leading dashes of a class are literal dashes.
RECURSIVE SkipDashes(_, _)
SkipDashes(cx, p) == IF At(cx, p) = Dash THEN SkipDashes(cx, p + 1) ELSE p

\* A bracketed class from its `[` at p: [ok, next, set], set the characters
\* of cx.sigma it accepts.  ClassLoop is the loop of parse_set_class: lhs and
\* op are the pending set operation, un the union being gathered.
BadClass(p) == [ok |-> FALSE, next |-> p, set |-> {}]

RECURSIVE ParseClass(_, _)
RECURSIVE ClassLoop(_, _, _, _, _)

\* After a nested class n: its set joins the union.
AfterNested(cx, lhs, op, un, n) ==
    IF n.ok THEN ClassLoop(cx, n.next, lhs, op, un \cup n.set)
    ELSE BadClass(n.next)

\* parse_set_class_range: a single character prim1, or the range from prim1
\* to prim2 when a `-` follows that is followed by neither `]` nor `-`.
AfterRangeEnd(cx, lhs, op, un, prim1, prim2) ==
    IF ~prim2.ok \/ prim1.c > prim2.c THEN BadClass(prim2.next)
    ELSE ClassLoop(cx, prim2.next, lhs, op,
                   un \cup {x \in cx.sigma : prim1.c <= x /\ x <= prim2.c})

AfterItem(cx, lhs, op, un, prim1) ==
    IF ~prim1.ok \/ prim1.next > Len(cx.re) THEN BadClass(prim1.next)
    ELSE IF At(cx, prim1.next) # Dash \/ At(cx, prim1.next + 1) = RBracket
            \/ At(cx, prim1.next + 1) = Dash
    THEN ClassLoop(cx, prim1.next, lhs, op, un \cup ({prim1.c} \cap cx.sigma))
    ELSE AfterRangeEnd(cx, lhs, op, un, prim1, ClassItemAt(cx, prim1.next + 1))

ClassLoop(cx, p, lhs, op, un) ==
    CASE p > Len(cx.re) -> BadClass(p)
      [] At(cx, p) = LBracket -> AfterNested(cx, lhs, op, un, ParseClass(cx, p))
      [] At(cx, p) = RBracket ->
            [ok |-> TRUE, next |-> p + 1, set |-> ApplyOp(lhs, op, un)]
      [] At(cx, p) = Amp /\ At(cx, p + 1) = Amp ->
            ClassLoop(cx, p + 2, ApplyOp(lhs, op, un), "&&", {})
      [] At(cx, p) = Dash /\ At(cx, p + 1) = Dash ->
            ClassLoop(cx, p + 2, ApplyOp(lhs, op, un), "--", {})
      [] At(cx, p) = Tilde /\ At(cx, p + 1) = Tilde ->
            ClassLoop(cx, p + 2, ApplyOp(lhs, op, un), "~~", {})
      [] OTHER -> AfterItem(cx, lhs, op, un, ClassItemAt(cx, p))

\* The class once its body r is parsed: a leading `^` complements it.
ClassOf(cx, negated, r) ==
    [ok |-> r.ok, next |-> r.next,
     set |-> IF negated THEN cx.sigma \ r.set ELSE r.set]

\* parse_set_class_open from p1, past `[` and `^`: the leading dashes are
\* literal dashes, and a `]` that comes first of all is a literal `]`.
ClassOpen(cx, negated, p1, p2) ==
    IF p2 = p1 /\ At(cx, p2) = RBracket
    THEN ClassOf(cx, negated,
                 ClassLoop(cx, p2 + 1, {}, "none", {RBracket} \cap cx.sigma))
    ELSE ClassOf(cx, negated,
                 ClassLoop(cx, p2, {}, "none",
                           IF p2 > p1 THEN {Dash} \cap cx.sigma ELSE {}))

ParseClass(cx, p) ==
    IF At(cx, p + 1) = Caret
    THEN ClassOpen(cx, TRUE, p + 2, SkipDashes(cx, p + 2))
    ELSE ClassOpen(cx, FALSE, p + 1, SkipDashes(cx, p + 1))

\* Alternation, concatenation, repetition and the primitives: [ok, next,
\* lang], the texts the sub-expression at p matches and where it ends.
RECURSIVE ParseAlt(_, _)
RECURSIVE ParseConcat(_, _)
RECURSIVE ParseQuant(_, _, _, _)

\* A group once its inside r is parsed: the `)` has to follow.
GroupOf(cx, p, r) ==
    IF r.ok /\ At(cx, r.next) = RParen
    THEN [r EXCEPT !.next = r.next + 1]
    ELSE Failed(p)

ClassAtom(r) ==
    [ok |-> r.ok, next |-> r.next, lang |-> {Lit(x) : x \in r.set}]

ParseAtom(cx, p) ==
    CASE At(cx, p) = LParen -> GroupOf(cx, p, ParseAlt(cx, p + 1))
      [] At(cx, p) = LBracket -> ClassAtom(ParseClass(cx, p))
      [] At(cx, p) = Backslash ->
            IF At(cx, p + 1) \in MetaChars
            THEN [ok |-> TRUE, next |-> p + 2,
                  lang |-> {Lit(x) : x \in {At(cx, p + 1)} \cap cx.sigma}]
            ELSE Failed(p)
      [] At(cx, p) = Dot ->
            [ok |-> TRUE, next |-> p + 1,
             lang |-> {Lit(x) : x \in cx.sigma \ {Newline}}]
      [] At(cx, p) = Caret ->
            [ok |-> TRUE, next |-> p + 1, lang |-> {[Eps EXCEPT !.b = TRUE]}]
      [] At(cx, p) = Dollar ->
            [ok |-> TRUE, next |-> p + 1, lang |-> {[Eps EXCEPT !.e = TRUE]}]
      [] At(cx, p) \in {Star, Plus, Quest, LBrace, RParen, Pipe, -1} -> Failed(p)
      [] OTHER ->
            [ok |-> TRUE, next |-> p + 1,
             lang |-> {Lit(x) : x \in {At(cx, p)} \cap cx.sigma}]

\* The repetition operators after a sub-expression; a `?` directly after an
\* operator only makes it lazy.
ParseQuant(cx, p, lang, lazy) ==
    CASE At(cx, p) = Star -> ParseQuant(cx, p + 1, StarOf(lang, cx.max), TRUE)
      [] At(cx, p) = Plus ->
            ParseQuant(cx, p + 1, Cat(lang, StarOf(lang, cx.max), cx.max), TRUE)
      [] At(cx, p) = Quest /\ lazy -> ParseQuant(cx, p + 1, lang, FALSE)
      [] At(cx, p) = Quest /\ ~lazy -> ParseQuant(cx, p + 1, lang \cup {Eps}, TRUE)
      [] OTHER -> [ok |-> TRUE, next |-> p, lang |-> lang]

QuantOf(cx, a) == IF a.ok THEN ParseQuant(cx, a.next, a.lang, FALSE) ELSE a

ParseRep(cx, p) == QuantOf(cx, ParseAtom(cx, p))

ConcatOf(cx, r, rest) ==
    [ok |-> rest.ok, next |-> rest.next, lang |-> Cat(r.lang, rest.lang, cx.max)]

AfterRep(cx, r) == IF r.ok THEN ConcatOf(cx, r, ParseConcat(cx, r.next)) ELSE r

ParseConcat(cx, p) ==
    IF At(cx, p) \in {Pipe, RParen, -1}
    THEN [ok |-> TRUE, next |-> p, lang |-> {Eps}]
    ELSE AfterRep(cx, ParseRep(cx, p))

AltOf(c, r) == [ok |-> r.ok, next |-> r.next, lang |-> c.lang \cup r.lang]

AfterConcat(cx, c) ==
    IF c.ok /\ At(cx, c.next) = Pipe THEN AltOf(c, ParseAlt(cx, c.next + 1)) ELSE c

ParseAlt(cx, p) == AfterConcat(cx, ParseConcat(cx, p))

\* The whole expression has to be consumed.
WholeOf(cx, r) == IF r.ok /\ r.next > Len(cx.re) THEN r ELSE Failed(r.next)

Parse(cx) == WholeOf(cx, ParseAlt(cx, 1))

\* Regex::new(re).is_ok(): the syntax alone decides.
RegexValid(re) == Parse(Cx(re, {}, 0)).ok

\* All the strings over sigma of at most n characters.
Strings(sigma, n) == UNION {[1..k -> sigma] : k \in 0..n}

\* The strings over sigma of at most max characters holding match m where
\* its anchors allow.
Haystacks(m, sigma, max) ==
    IF m.b /\ m.e THEN {m.w}
    ELSE {x \o m.w \o y :
            <<x, y>> \in {q \in Strings(sigma, max - Len(m.w))
                                 \X Strings(sigma, max - Len(m.w)) :
                            /\ Len(q[1]) + Len(q[2]) + Len(m.w) <= max
                            /\ m.b => q[1] = <<>>
                            /\ m.e => q[2] = <<>>}}

\* The strings s over sigma of at most max characters for which
\* Regex::new(re).is_match(s) holds (is_match searches: it is the anchors of
\* the expression that tie a match to the ends of s).
Accepted(re, sigma, max) ==
    UNION {Haystacks(m, sigma, max) : m \in Parse(Cx(re, sigma, max)).lang}

is_match(re, s) == s \in Accepted(re, Range1(s), Len(s))

(***************************************************************************)
(* glob_to_regex: the parser state and one action per arm of the match on  *)
(* the state, each consuming the character chr == pattern[pos + 1].        *)
(***************************************************************************)

\* enum State
Literal == [tag |-> "Literal"]
Escape == [tag |-> "Escape"]
ClassStart == [tag |-> "ClassStart"]
Class(acc) == [tag |-> "Class", acc |-> acc]
ClassRange(acc, start) == [tag |-> "ClassRange", acc |-> acc, start |-> start]
ClassRangeDash(acc) == [tag |-> "ClassRangeDash", acc |-> acc]
ClassEscape(acc) == [tag |-> "ClassEscape", acc |-> acc]
Alternate(current, gathered) ==
    [tag |-> "Alternate", current |-> current, gathered |-> gathered]
AlternateEscape(current, gathered) ==
    [tag |-> "AlternateEscape", current |-> current, gathered |-> gathered]

\* The outcome of the call: still scanning, Ok(Regex), or Err(FError).
Running == [kind |-> "Running", args |-> <<>>]
Ok == [kind |-> "Ok", args |-> <<>>]
Err(kind, args) == [kind |-> kind, args |-> args]

chr == pattern[pos + 1]

\* A variant that goes on scanning after a failure; C19 tells it from
\* Scanning.
ScanningOn(tag) ==
    /\ pos < Len(pattern)
    /\ state.tag = tag

Scanning(tag) ==
    /\ result = Running
    /\ pos < Len(pattern)
    /\ state.tag = tag

\* Ok(next): the fold goes on with the next state and the buffer.
Goes(next, buf) ==
    /\ state' = next
    /\ res' = buf
    /\ pos' = pos + 1
    /\ UNCHANGED <<pattern, result>>
    /\ UNCHANGED flattenVars

\* Err(e)?: the fold stops and the call returns the error.
Fails(e) ==
    /\ result' = e
    /\ pos' = pos + 1
    /\ UNCHANGED <<pattern, state, res>>
    /\ UNCHANGED flattenVars

Push(acc, item) == [acc EXCEPT !.items = Append(acc.items, item)]

\* A variant of the text for `?` that stands for any character, `/` too; C2
\* tells it from QuestionFragment.
QuestionFragmentAnyChar == <<Dot>>

\* What the Literal state appends for `?`, for `*`, and for `]`, `}` and `.`.
QuestionFragment == <<LBracket, Caret, Slash, RBracket>>

StarFragment == <<Dot, Star>>

\* A variant that writes the character without the backslash; C4 tells it
\* from EscapedLiteral.
EscapedLiteralRaw(c) == <<c>>

EscapedLiteral(c) == <<Backslash, c>>

StepLiteral ==
    /\ Scanning("Literal")
    /\ CASE chr = Backslash -> Goes(Escape, res)
         [] chr = LBracket -> Goes(ClassStart, res)
         [] chr = LBrace -> Goes(Alternate(<<>>, <<>>), res)
         [] chr = Quest -> Goes(state, res \o QuestionFragment)
         [] chr = Star -> Goes(state, res \o StarFragment)
         [] chr \in {RBracket, RBrace, Dot} -> Goes(state, res \o EscapedLiteral(chr))
         [] OTHER -> Goes(state, res \o <<chr>>)

\* A variant in which a `]` directly after `[` closes an empty class; C14
\* tells it from StepClassStart.
StepClassStartCloses ==
    /\ Scanning("ClassStart")
    /\ CASE chr = Bang -> Goes(Class(ClassAccumulator(TRUE, <<>>)), res)
         [] chr = Dash -> Goes(Class(ClassAccumulator(FALSE, <<Char(Dash)>>)), res)
         [] chr = RBracket ->
                Goes(Literal, res \o close_class(ClassAccumulator(FALSE, <<>>)))
         [] chr = Backslash -> Goes(ClassEscape(ClassAccumulator(FALSE, <<>>)), res)
         [] OTHER -> Goes(Class(ClassAccumulator(FALSE, <<Char(chr)>>)), res)

StepClassStart ==
    /\ Scanning("ClassStart")
    /\ CASE chr = Bang -> Goes(Class(ClassAccumulator(TRUE, <<>>)), res)
         [] chr = Dash -> Goes(Class(ClassAccumulator(FALSE, <<Char(Dash)>>)), res)
         [] chr = RBracket ->
                Goes(Class(ClassAccumulator(FALSE, <<Char(RBracket)>>)), res)
         [] chr = Backslash -> Goes(ClassEscape(ClassAccumulator(FALSE, <<>>)), res)
         [] OTHER -> Goes(Class(ClassAccumulator(FALSE, <<Char(chr)>>)), res)

StepClass ==
    /\ Scanning("Class")
    /\ LET acc == state.acc
           n == Len(acc.items)
           popped == [acc EXCEPT !.items = SubSeq(acc.items, 1, n - 1)]
       IN  CASE chr = RBracket ->
                    IF acc.items = <<>>
                    THEN Goes(Class(Push(acc, Char(RBracket))), res)
                    ELSE Goes(Literal, res \o close_class(acc))
             [] chr = Dash ->
                    IF n = 0 THEN Goes(Class(Push(acc, Char(Dash))), res)
                    ELSE IF acc.items[n].type = "Range"
                    THEN Goes(ClassRangeDash(acc), res)
                    ELSE Goes(ClassRange(popped, acc.items[n].start), res)
             [] chr = Backslash -> Goes(ClassEscape(acc), res)
             [] OTHER -> Goes(Class(Push(acc, Char(chr))), res)

\* A variant that takes the dash after a range as a member and goes on with
\* the class; C13 tells it from StepClassRangeDash.
StepClassRangeDashGoesOn ==
    /\ Scanning("ClassRangeDash")
    /\ IF chr = RBracket
       THEN Goes(Literal, res \o close_class(Push(state.acc, Char(Dash))))
       ELSE Goes(Class(Push(Push(state.acc, Char(Dash)), Char(chr))), res)

StepClassRangeDash ==
    /\ Scanning("ClassRangeDash")
    /\ LET acc == state.acc
           n == Len(acc.items)
       IN  IF chr = RBracket
           THEN Goes(Literal, res \o close_class(Push(acc, Char(Dash))))
           ELSE IF n > 0 /\ acc.items[n].type = "Range"
           THEN Fails(Err("RangeAfterRange",
                          <<acc.items[n].start, acc.items[n].end>>))
           ELSE Fails(Err("NotImplemented", <<>>))

\* A variant that writes the escaped member to the buffer at once; C29 tells
\* it from StepClassEscape.
StepClassEscapeWritesThrough ==
    /\ Scanning("ClassEscape")
    /\ LET esc == map_letter_escape(chr)
       IN  Goes(Class(Push(state.acc, Char(esc))), res \o <<esc>>)

StepClassEscape ==
    /\ Scanning("ClassEscape")
    /\ LET esc == map_letter_escape(chr)
       IN  Goes(Class(Push(state.acc, Char(esc))), res)

\* A variant that takes a descending range as it stands; C12 tells it from
\* StepClassRange.
StepClassRangeUnordered ==
    /\ Scanning("ClassRange")
    /\ LET acc == state.acc
           start == state.start
       IN  CASE chr = Backslash -> Fails(Err("NotImplemented", <<>>))
             [] chr = RBracket ->
                    Goes(Literal,
                         res \o close_class(Push(Push(acc, Char(start)), Char(Dash))))
             [] chr \notin {Backslash, RBracket} /\ start = chr ->
                    Goes(Class(Push(acc, Char(start))), res)
             [] OTHER -> Goes(Class(Push(acc, Range(start, chr))), res)

\* A variant that stores the range of one character as a range; C26 tells it
\* from StepClassRange.
StepClassRangeKeepsSingle ==
    /\ Scanning("ClassRange")
    /\ LET acc == state.acc
           start == state.start
       IN  CASE chr = Backslash -> Fails(Err("NotImplemented", <<>>))
             [] chr = RBracket ->
                    Goes(Literal,
                         res \o close_class(Push(Push(acc, Char(start)), Char(Dash))))
             [] chr \notin {Backslash, RBracket} /\ start > chr ->
                    Fails(Err("ReversedRange", <<start, chr>>))
             [] OTHER -> Goes(Class(Push(acc, Range(start, chr))), res)

\* A variant that drops the dash of a range left without its end; C22
\* tells it from StepClassRange.
StepClassRangeDropsDash ==
    /\ Scanning("ClassRange")
    /\ LET acc == state.acc
           start == state.start
       IN  CASE chr = Backslash -> Fails(Err("NotImplemented", <<>>))
             [] chr = RBracket ->
                    Goes(Literal, res \o close_class(Push(acc, Char(start))))
             [] chr \notin {Backslash, RBracket} /\ start > chr ->
                    Fails(Err("ReversedRange", <<start, chr>>))
             [] chr \notin {Backslash, RBracket} /\ start = chr ->
                    Goes(Class(Push(acc, Char(start))), res)
             [] OTHER -> Goes(Class(Push(acc, Range(start, chr))), res)

StepClassRange ==
    /\ Scanning("ClassRange")
    /\ LET acc == state.acc
           start == state.start
       IN  CASE chr = Backslash -> Fails(Err("NotImplemented", <<>>))
             [] chr = RBracket ->
                    Goes(Literal,
                         res \o close_class(Push(Push(acc, Char(start)), Char(Dash))))
             [] chr \notin {Backslash, RBracket} /\ start > chr ->
                    Fails(Err("ReversedRange", <<start, chr>>))
             [] chr \notin {Backslash, RBracket} /\ start = chr ->
                    Goes(Class(Push(acc, Char(start))), res)
             [] OTHER -> Goes(Class(Push(acc, Range(start, chr))), res)

\* A variant that takes a `[` in a branch as an ordinary character; C17
\* tells it from StepAlternate.
StepAlternateTakesBracket ==
    /\ Scanning("Alternate")
    /\ LET current == state.current
           gathered == state.gathered
       IN  CASE chr = Comma -> Goes(Alternate(<<>>, Append(gathered, current)), res)
             [] chr = RBrace ->
                    IF current = <<>> /\ gathered = <<>>
                    THEN Goes(Literal, push_escaped(push_escaped(res, LBrace), RBrace))
                    ELSE Goes(Literal,
                              res \o close_alternate(Append(gathered, current)))
             [] chr = Backslash -> Goes(AlternateEscape(current, gathered), res)
             [] OTHER -> Goes(Alternate(Append(current, chr), gathered), res)

\* A variant that makes a group of the empty braces too; C24 tells it from
\* StepAlternate.
StepAlternateGroupsEmpty ==
    /\ Scanning("Alternate")
    /\ LET current == state.current
           gathered == state.gathered
       IN  CASE chr = Comma -> Goes(Alternate(<<>>, Append(gathered, current)), res)
             [] chr = RBrace ->
                    Goes(Literal, res \o close_alternate(Append(gathered, current)))
             [] chr = Backslash -> Goes(AlternateEscape(current, gathered), res)
             [] chr = LBracket -> Fails(Err("NotImplemented", <<>>))
             [] OTHER -> Goes(Alternate(Append(current, chr), gathered), res)

StepAlternate ==
    /\ Scanning("Alternate")
    /\ LET current == state.current
           gathered == state.gathered
       IN  CASE chr = Comma -> Goes(Alternate(<<>>, Append(gathered, current)), res)
             [] chr = RBrace ->
                    IF current = <<>> /\ gathered = <<>>
                    THEN Goes(Literal, push_escaped(push_escaped(res, LBrace), RBrace))
                    ELSE Goes(Literal,
                              res \o close_alternate(Append(gathered, current)))
             [] chr = Backslash -> Goes(AlternateEscape(current, gathered), res)
             [] chr = LBracket -> Fails(Err("NotImplemented", <<>>))
             [] OTHER -> Goes(Alternate(Append(current, chr), gathered), res)

\* A variant in which an escaped comma still splits the branch; C23 tells
\* it from StepAlternateEscape.
StepAlternateEscapeSplits ==
    /\ Scanning("AlternateEscape")
    /\ IF chr = Comma
       THEN Goes(Alternate(<<>>, Append(state.gathered, state.current)), res)
       ELSE Goes(Alternate(Append(state.current, map_letter_escape(chr)),
                           state.gathered), res)

StepAlternateEscape ==
    /\ Scanning("AlternateEscape")
    /\ LET esc == map_letter_escape(chr)
       IN  Goes(Alternate(Append(state.current, esc), state.gathered), res)

StepEscape ==
    /\ Scanning("Escape")
    /\ Goes(Literal, push_escaped_special(res, chr))

\* A variant that reports the backslash left pending in a class or in an
\* alternation as a bare escape; C11 tells it from EndOfInput.
EndOfInputEscapeFirst(tag, buf) ==
    CASE tag = "Literal" ->
             IF RegexValid(buf \o <<Dollar>>) THEN Ok ELSE Err("InvalidRegex", <<>>)
      [] tag \in {"Escape", "ClassEscape", "AlternateEscape"} ->
             Err("BareEscape", <<>>)
      [] tag \in {"ClassStart", "Class", "ClassRange", "ClassRangeDash"} ->
             Err("UnclosedClass", <<>>)
      [] tag = "Alternate" -> Err("UnclosedAlternation", <<>>)

\* The match on the final state, after the last character.
EndOfInput(tag, buf) ==
    CASE tag = "Literal" ->
             IF RegexValid(buf \o <<Dollar>>) THEN Ok ELSE Err("InvalidRegex", <<>>)
      [] tag = "Escape" -> Err("BareEscape", <<>>)
      [] tag \in {"ClassStart", "Class", "ClassRange", "ClassRangeDash",
                  "ClassEscape"} -> Err("UnclosedClass", <<>>)
      [] tag \in {"Alternate", "AlternateEscape"} -> Err("UnclosedAlternation", <<>>)

\* A variant that appends the `$` whatever the final state; C20 tells it
\* from Finish.
FinishAnchorsAlways ==
    /\ result = Running
    /\ pos = Len(pattern)
    /\ result' = EndOfInput(state.tag, res)
    /\ res' = res \o <<Dollar>>
    /\ UNCHANGED <<pattern, pos, state>>
    /\ UNCHANGED flattenVars

Finish ==
    /\ result = Running
    /\ pos = Len(pattern)
    /\ result' = EndOfInput(state.tag, res)
    /\ res' = IF state.tag = "Literal" THEN res \o <<Dollar>> ELSE res
    /\ UNCHANGED <<pattern, pos, state>>
    /\ UNCHANGED flattenVars

Next ==
    \/ StepLiteral
    \/ StepEscape
    \/ StepClassStart
    \/ StepClass
    \/ StepClassRange
    \/ StepClassRangeDash
    \/ StepClassEscape
    \/ StepAlternate
    \/ StepAlternateEscape
    \/ Finish

\* The call glob_to_regex(p), before its first step.
Starts(p) ==
    /\ pattern = p
    /\ pos = 0
    /\ state = Literal
    /\ res = <<Caret>>
    /\ result = Running

(***************************************************************************)
(* The inputs: every pattern of a few characters over the characters that  *)
(* drive each part of the parser, and the patterns of the crate's tests    *)
(* and documentation.                                                      *)
(***************************************************************************)

\* The longest free-form pattern outside brackets and braces.
MaxTop == 3
\* The longest body of a bracketed class.
MaxClass == 4
\* The longest body of an alternation.
MaxAlt == 3

\* Characters met in the Literal state.
TopChars ==
    {Ord("a"), Ord("b"), Slash, Quest, Star, Dot, RBracket, RBrace, Plus,
     LParen, RParen, Backslash}

\* Characters met inside a class: the negation mark, the dash, the slash and
\* its neighbours `.` and `0`, a character above them, the bracket and the
\* backslash.
ClassChars ==
    {Bang, Dash, Dot, Slash, Zero, Caret, Ord("a"), RBracket, Backslash}

\* Characters of the patterns that open a brace inside a class.
NestChars == {Ord("a"), Bang, Dash, LBrace, RBrace}

\* Characters met inside an alternation.
AltChars ==
    {Ord("a"), Ord("b"), Comma, Quest, Star, RParen, Backslash, LBracket,
     LBrace}

\* Characters that follow a top-level backslash: the printable ones.
EscapeChars == Ord(" ")..Ord("~")

TopInputs == Strings(TopChars, MaxTop)

ClassInputs == {<<LBracket>> \o body \o <<RBracket>> : body \in Strings(ClassChars, MaxClass)}

AltInputs ==
    {pre \o <<LBrace>> \o body \o <<RBrace>> :
        pre \in {<<>>, <<LParen>>}, body \in Strings(AltChars, MaxAlt)}

\* The patterns of src/src/tests/glob.rs and of the module documentation.
TestInputs ==
    { Str(<<"c", "o", "n", ".", "s", "t">>),
      Str(<<"t", "h", "i", "s", "/", "i", "s", "/", "?", ".", "t", "e", "s", "t">>),
      Str(<<"a", "?", "b">>),
      Str(<<"[", "0", "-", "9", "]">>),
      Str(<<"[", "!", "0", "-", "9", "]">>),
      Str(<<"[", "a", "b", ".", "-", "9", "c", "]">>),
      Str(<<"[", "a", "b", "+", "-", "9", "c", "]">>),
      Str(<<"[", "a", "b", "0", "-", "9", "c", "-", "]">>),
      Str(<<"[", "0", "-", "9", "a", "b", "c", "-", "]">>),
      Str(<<"[", "+", "a", "-", "]">>),
      Str(<<"[", "0", "-", "9", "-", "]">>),
      Str(<<"[", "0", "-", "9", "-", "a", "]">>),
      Str(<<"[", "-", "-", "9", "]">>),
      Str(<<"{", "t", "h", "?", "i", "s", ",", "t", "h", "a", "t", ",", ".", ".", ".", "*", "}">>),
      Str(<<"{", "a", ",", "a", ",", "b", "}">>),
      Str(<<"{", "a", ",", "b", "}">>),
      Str(<<"{", "b", ",", "a", "}">>),
      Str(<<"l", "-", "[", "0", "-", "9", "]", "*", "-", "{", "g", ",", "a", "w", "s", "}">>) }

\* Patterns that end inside a class or an alternation, and the error
\* scenarios of the specification.
UnclosedInputs ==
    {<<LBracket>> \o body : body \in Strings(ClassChars, MaxClass - 1)}
        \cup {<<LBrace>> \o body : body \in Strings(AltChars, MaxAlt)}
        \cup {Str(<<"[", "0", "-", "9">>), Str(<<"[", "0", "-", "9", "-">>),
              Str(<<"{", "a", ",", "b">>)}

\* A brace inside a class, closed and left open, and a nested alternation
\* followed by the brace that closes the outer one.
NestInputs ==
    {<<LBracket>> \o body \o tail :
        body \in Strings(NestChars, MaxClass - 1), tail \in {<<>>, <<RBracket>>}}
        \cup {p \o <<RBrace>> : p \in AltInputs}

\* A backslash at the top level and the character it escapes.
EscapeInputs == {<<Backslash, c>> : c \in EscapeChars}

Inputs ==
    TopInputs \cup ClassInputs \cup AltInputs \cup TestInputs
        \cup UnclosedInputs \cup NestInputs \cup EscapeInputs

(***************************************************************************)
(* try_flatten.rs: an iterator over the items of the Ok elements of an     *)
(* iterator of results, and over its Err elements.  An iterator is the     *)
(* sequence of the items it has yet to give.                               *)
(***************************************************************************)
\* Ok(v), Err(e) and None, as elements of the wrapped iterator and as the
\* values of next().
OkOf(v) == [ok |-> v]
ErrOf(e) == [err |-> e]
None == [none |-> TRUE]
IsOk(r) == "ok" \in DOMAIN r

\* The value of `returned` before the first call.
Unasked == [unasked |-> TRUE]

TryFlattenImpl(i, r, n) == [it |-> i, ready |-> r, inner |-> n]

try_flatten(o) == TryFlattenImpl(o, FALSE, <<>>)

\* A variant that gives up the rest of the wrapped iterator at its first
\* error; C25 tells it from TryFlattenImpl_next.
RECURSIVE TryFlattenImpl_next_fused(_)
TryFlattenImpl_next_fused(self) ==
    IF self.ready
    THEN IF self.inner # <<>>
         THEN [self |-> [self EXCEPT !.inner = Tail(self.inner)],
               ret |-> OkOf(Head(self.inner))]
         ELSE TryFlattenImpl_next_fused([self EXCEPT !.ready = FALSE])
    ELSE IF self.it = <<>>
         THEN [self |-> self, ret |-> None]
         ELSE IF IsOk(Head(self.it))
              THEN TryFlattenImpl_next_fused(
                       TryFlattenImpl(Tail(self.it), TRUE, Head(self.it).ok))
              ELSE [self |-> [self EXCEPT !.it = <<>>],
                    ret |-> ErrOf(Head(self.it).err)]

\* next(&mut self): the iterator after the call, and the value returned.
RECURSIVE TryFlattenImpl_next(_)
TryFlattenImpl_next(self) ==
    IF self.ready
    THEN IF self.inner # <<>>
         THEN [self |-> [self EXCEPT !.inner = Tail(self.inner)],
               ret |-> OkOf(Head(self.inner))]
         ELSE TryFlattenImpl_next([self EXCEPT !.ready = FALSE])
    ELSE IF self.it = <<>>
         THEN [self |-> self, ret |-> None]
         ELSE IF IsOk(Head(self.it))
              THEN TryFlattenImpl_next(
                       TryFlattenImpl(Tail(self.it), TRUE, Head(self.it).ok))
              ELSE [self |-> [self EXCEPT !.it = Tail(self.it)],
                    ret |-> ErrOf(Head(self.it).err)]

\* One call of next() by the owner of the iterator.
CallNext ==
    LET r == TryFlattenImpl_next(TryFlattenImpl(it, ready, inner))
    IN  /\ it' = r.self.it
        /\ ready' = r.self.ready
        /\ inner' = r.self.inner
        /\ returned' = r.ret
        /\ yielded' = IF r.ret = None THEN yielded ELSE Append(yielded, r.ret)
        /\ UNCHANGED outer
        /\ UNCHANGED globVars

FlattenNext == CallNext

MaxOuter == 3
MaxInner == 2

Items == {1, 2}
Errors == {"oof"}

OuterItems == {OkOf(n) : n \in Strings(Items, MaxInner)}
                  \cup {ErrOf(e) : e \in Errors}

\* The sequences of the tests; 1, 2 and 3 stand for hello, goodbye and never.
OPT_OK == <<OkOf(<<1>>), OkOf(<<>>), OkOf(<<2>>)>>
OPT_ERR == <<OkOf(<<1>>), OkOf(<<>>), OkOf(<<2>>), OkOf(<<>>), ErrOf("oof"),
             OkOf(<<3>>)>>
LazyTest == <<OkOf(<<1, 2>>), OkOf(<<>>), OkOf(<<3>>), ErrOf("oof")>>

FlattenInputs == Strings(OuterItems, MaxOuter) \cup {OPT_OK, OPT_ERR, LazyTest}

\* No glob_to_regex call is under way.
NoGlob ==
    /\ pattern = <<>>
    /\ pos = 0
    /\ state = Literal
    /\ res = <<>>
    /\ result = Running

\* No iterator has been built.
NoFlatten ==
    /\ outer = <<>>
    /\ it = <<>>
    /\ ready = FALSE
    /\ inner = <<>>
    /\ returned = Unasked
    /\ yielded = <<>>

\* o.into_iter().try_flatten(), before the first call of next().
Flattens(o) ==
    /\ outer = o
    /\ it = try_flatten(o).it
    /\ ready = try_flatten(o).ready
    /\ inner = try_flatten(o).inner
    /\ returned = Unasked
    /\ yielded = <<>>

FlattenInit == NoGlob /\ \E o \in FlattenInputs : Flattens(o)

FlattenSpec == FlattenInit /\ [][FlattenNext]_vars

Init == NoFlatten /\ \E p \in Inputs : Starts(p)

Spec == Init /\ [][Next]_vars

Done == result # Running
Compiled == result = Ok

(***************************************************************************)
(* The documented meaning of a pattern of ordinary characters, `?` and     *)
(* `*` (module documentation, glob.rs 3-7): the strings over sigma of at   *)
(* most max characters it is meant to match.                               *)
(***************************************************************************)

RECURSIVE DocLang(_, _, _)
DocLang(p, sigma, max) ==
    IF p = <<>> THEN {<<>>}
    ELSE LET first == CASE Head(p) = Quest -> {<<c>> : c \in sigma \ {Slash}}
                        [] Head(p) = Star -> Strings(sigma \ {Slash}, max)
                        [] OTHER -> {<<c>> : c \in {Head(p)} \cap sigma}
         IN  {q[1] \o q[2] :
                q \in {r \in first \X DocLang(Tail(p), sigma, max) :
                         Len(r[1]) + Len(r[2]) <= max}}

\* The candidate characters of the wildcard claims.
WildSigma == {Ord("a"), Ord("b"), Dot, Quest, Star, Slash}

OnlyOf(chars) == Range1(pattern) \subseteq chars

(***************************************************************************)
(* C1: a top-level `*` matches only a run of characters without `/`: for   *)
(* a compiled pattern of ordinary characters and `*`, every accepted       *)
(* string is one the documented meaning admits (`a*b` rejects `a/b`).      *)
(***************************************************************************)
C1_StarNeverCrossesSlash ==
    (Compiled /\ OnlyOf({Ord("a"), Ord("b"), Slash, Star}))
        => Accepted(res, WildSigma, Len(pattern) + 1)
               \subseteq DocLang(pattern, WildSigma, Len(pattern) + 1)

(***************************************************************************)
(* C2: a top-level `?` matches exactly one character, never `/`: a         *)
(* pattern of ordinary characters and `?` compiles, and accepts exactly    *)
(* the strings of its own length that agree with it on the ordinary        *)
(* characters and hold a character other than `/` at each `?`; so `a?b`    *)
(* accepts aab, a.b, a?b, a*b and rejects a/b, ab, aaab.                   *)
(***************************************************************************)
C2_QuestionOneNonSlash ==
    (Done /\ OnlyOf({Ord("a"), Ord("b"), Slash, Quest}))
        => /\ Compiled
           /\ Accepted(res, WildSigma, Len(pattern) + 1)
                  = DocLang(pattern, WildSigma, Len(pattern) + 1)
           /\ pattern = Str(<<"a", "?", "b">>) =>
                  /\ \A s \in {Str(<<"a", "a", "b">>), Str(<<"a", ".", "b">>),
                               Str(<<"a", "?", "b">>), Str(<<"a", "*", "b">>)} :
                         is_match(res, s)
                  /\ \A s \in {Str(<<"a", "/", "b">>), Str(<<"a", "b">>),
                               Str(<<"a", "a", "a", "b">>)} :
                         ~is_match(res, s)

C2_Witness ==
    /\ Compiled
    /\ pattern = Str(<<"a", "?", "b">>)
    /\ is_match(res, Str(<<"a", ".", "b">>))
    /\ ~is_match(res, Str(<<"a", "/", "b">>))

(***************************************************************************)
(* C3: a pattern made only of characters other than \ ? * [ { ] } and .    *)
(* compiles, and its matcher accepts the pattern itself and nothing else.  *)
(***************************************************************************)
LiteralSigma ==
    {Ord("a"), Ord("b"), Slash, Plus, LParen, RParen, Dot, RBracket, RBrace,
     Backslash}

C3_PlainPatternMatchesItself ==
    (Done /\ OnlyOf({Ord("a"), Ord("b"), Slash, Plus, LParen, RParen}))
        => /\ Compiled
           /\ Accepted(res, LiteralSigma, Len(pattern) + 1) = {pattern}

(***************************************************************************)
(* C4: `.`, `]` and `}` met in the Literal state are emitted escaped and   *)
(* match only themselves: a pattern of letters, `/`, `.`, `]` and `}`      *)
(* compiles and accepts exactly itself, no other character standing for    *)
(* the dot and no text before or after (con.st accepts only con.st).       *)
(***************************************************************************)
ConstSigma ==
    {Ord("c"), Ord("o"), Ord("n"), Ord("s"), Ord("t"), Ord("a"), Ord("A"),
     Bang, Quest, Dot, Ord(" ")}

C4_DotBracketBraceLiteral ==
    /\ (Done /\ OnlyOf({Ord("a"), Ord("b"), Slash, Dot, RBracket, RBrace}))
           => /\ Compiled
              /\ Accepted(res, LiteralSigma, Len(pattern) + 1) = {pattern}
    /\ (Done /\ pattern = Str(<<"c", "o", "n", ".", "s", "t">>))
           => /\ Compiled
              /\ res = Str(<<"^", "c", "o", "n", "\\", ".", "s", "t", "$">>)
              /\ Accepted(res, ConstSigma, Len(pattern) + 2) = {pattern}

C4_Witness ==
    /\ Compiled
    /\ pattern = Str(<<"c", "o", "n", ".", "s", "t">>)
    /\ is_match(res, pattern)
    /\ ~is_match(res, Str(<<"c", "o", "n", "A", "s", "t">>))
    /\ ~is_match(res, Str(<<"c", "o", "n", ".", "s", "t", "a", "n", "t">>))

(***************************************************************************)
(* Classes: what the step that closes a class hands to close_class, and    *)
(* the text it appends.                                                    *)
(***************************************************************************)

\* The states in which a `]` closes the class (Class with no item yet takes
\* the `]` as a member instead).
ClosingTags == {"Class", "ClassRange", "ClassRangeDash"}

\* The accumulator the arm for `]` hands to close_class in state st.
Handed(st) ==
    CASE st.tag = "Class" -> st.acc
      [] st.tag = "ClassRange" -> Push(Push(st.acc, Char(st.start)), Char(Dash))
      [] st.tag = "ClassRangeDash" -> Push(st.acc, Char(Dash))

\* This step closes a class.
ClassCloses == state.tag \in ClosingTags /\ state'.tag = "Literal"

\* The text this step appends to the buffer.
Emitted == SubSeq(res', Len(res) + 1, Len(res'))

\* A fragment as an expression of its own, between the two anchors.
Anchored(text) == <<Caret>> \o text \o <<Dollar>>

\* The characters an item list covers.
Covered(items) ==
    UNION {IF items[i].type = "Char" THEN {items[i].start}
           ELSE items[i].start..items[i].end : i \in 1..Len(items)}

ProperRanges(items) ==
    \A i \in 1..Len(items) :
        items[i].type = "Range" => items[i].start < items[i].end

\* The elements of a set in some fixed order.
RECURSIVE Canon(_)
Canon(S) ==
    IF S = {} THEN <<>>
    ELSE LET x == CHOOSE y \in S : TRUE IN <<x>> \o Canon(S \ {x})

Reverse(s) == [i \in 1..Len(s) |-> s[Len(s) + 1 - i]]

\* Other item lists with the same set of items: another order, the reverse
\* order, every item twice.
Rearranged(s) == {Canon(Range1(s)), Reverse(s), s \o s, s \o Reverse(s)}

(***************************************************************************)
(* C5: the class emitted for a non-negated class [X] that compiles does    *)
(* not accept `/`, whatever X holds.                                       *)
(***************************************************************************)
C5_PlainClassRejectsSlash ==
    [][(ClassCloses /\ ~state.acc.negated /\ RegexValid(Anchored(Emitted)))
          => ~is_match(Anchored(Emitted), <<Slash>>)]_vars

(***************************************************************************)
(* C6: for a negated class [!X] that compiles, the item list handed to     *)
(* serialization covers `/`, `/` being added as a standalone character     *)
(* exactly when no item of X covers it, and the emitted class does not     *)
(* accept `/`.                                                             *)
(***************************************************************************)
SlashCovered(items) == \E i \in 1..Len(items) : CoversSlash(items[i])

C6_NegatedClassRejectsSlash ==
    [][(ClassCloses /\ state.acc.negated /\ RegexValid(Anchored(Emitted)))
          => LET given == Handed(state).items
                 items == handle_slash(Handed(state)).items
             IN  /\ SlashCovered(items)
                 /\ items = IF SlashCovered(given) THEN given
                            ELSE given \o <<Char(Slash)>>
                 /\ ~is_match(Anchored(Emitted), <<Slash>>)]_vars

(***************************************************************************)
(* C7: for a non-negated accumulator whose ranges have start < end,        *)
(* handle_slash_exclude returns items that cover exactly the characters    *)
(* the input covers, less `/`: no range of the result holds `/`, a         *)
(* one-character part is a single character and an empty part is dropped   *)
(* (every range of the result has start < end).  So [--9] accepts `-`,     *)
(* `.` and the digits and rejects `/`.                                     *)
(***************************************************************************)
DashNineSigma ==
    {Plus, Ord(","), Dash, Dot, Slash, Zero, Ord("5"), Ord("9"), Ord(":"), Ord("a")}

C7_ExcludeRemovesOnlySlash ==
    /\ (state.tag \in ClosingTags /\ ~state.acc.negated
            /\ ProperRanges(Handed(state).items))
           => LET acc == Handed(state)
                  out == handle_slash_exclude(acc)
              IN  /\ out.negated = acc.negated
                  /\ Covered(out.items) = Covered(acc.items) \ {Slash}
                  /\ ProperRanges(out.items)
                  /\ ~SlashCovered(out.items)
    /\ (Done /\ pattern = Str(<<"[", "-", "-", "9", "]">>))
           => /\ Compiled
              /\ Accepted(res, DashNineSigma, 2)
                     = {<<c>> : c \in {Dash, Dot, Zero, Ord("5"), Ord("9")}}

C7_Witness ==
    /\ state.tag = "Class"
    /\ ~state.acc.negated
    /\ \E i \in 1..Len(state.acc.items) :
           /\ state.acc.items[i].type = "Range"
           /\ state.acc.items[i].start < Slash
           /\ state.acc.items[i].end > Slash
    /\ Len(handle_slash_exclude(state.acc).items) > Len(state.acc.items)

(***************************************************************************)
(* C8: close_class yields the same text for accumulators with the same     *)
(* negation flag and the same set of items, whatever their order and       *)
(* multiplicity; [ab0-9c-] and [0-9abc-] compile to the same expression.   *)
(***************************************************************************)
C8_CloseClassOrderFree ==
    /\ state.tag \in ClosingTags
           => \A items \in Rearranged(Handed(state).items) :
                  close_class([Handed(state) EXCEPT !.items = items])
                      = close_class(Handed(state))
    /\ (Done /\ pattern \in {Str(<<"[", "a", "b", "0", "-", "9", "c", "-", "]">>),
                             Str(<<"[", "0", "-", "9", "a", "b", "c", "-", "]">>)})
           => /\ Compiled
              /\ res = Str(<<"^", "[", "a", "b", "c", "0", "-", "9", "-", "]", "$">>)

C8_Witness ==
    /\ state.tag = "Class"
    /\ Len(state.acc.items) >= 3
    /\ Cardinality(Range1(state.acc.items)) < Len(state.acc.items)
    /\ \E i, j \in 1..Len(state.acc.items) :
           /\ i < j
           /\ state.acc.items[i].type = "Char"
           /\ state.acc.items[j].type = "Char"
           /\ state.acc.items[i].start > state.acc.items[j].start

(***************************************************************************)
(* C9: close_alternate yields the same text for branch sequences with the  *)
(* same set of branches, whatever their order and multiplicity; {a,a,b},   *)
(* {a,b} and {b,a} compile to the same group.                              *)
(***************************************************************************)
C9_CloseAlternateOrderFree ==
    /\ state.tag = "Alternate"
           => LET gathered == Append(state.gathered, state.current)
              IN  \A other \in Rearranged(gathered) :
                      close_alternate(other) = close_alternate(gathered)
    /\ (Done /\ pattern \in {Str(<<"{", "a", ",", "a", ",", "b", "}">>),
                             Str(<<"{", "a", ",", "b", "}">>),
                             Str(<<"{", "b", ",", "a", "}">>)})
           => /\ Compiled
              /\ res = Str(<<"^", "(", "a", "|", "b", ")", "$">>)

C9_Witness ==
    /\ state.tag = "Alternate"
    /\ state.gathered = <<Str(<<"a">>), Str(<<"a">>)>>
    /\ state.current = Str(<<"b">>)
    /\ close_alternate(Append(state.gathered, state.current))
           = close_alternate(<<Str(<<"b">>), Str(<<"a">>)>>)

(***************************************************************************)
(* C10: an alternation that compiles accepts, at its position, exactly     *)
(* the strings equal to one of its branches: every character of a branch   *)
(* stands for itself.  Stated for the patterns that are an alternation of  *)
(* branches without backslash, after at most one ordinary character.       *)
(***************************************************************************)
PlainAltChars == {Ord("a"), Ord("b"), Comma, Quest, Star, RParen}

AltSigma == {Ord("a"), Ord("b"), Comma, Quest, Star, LParen, RParen, Dot}

\* The branches of an alternation body without escapes: its parts between
\* the commas.
RECURSIVE Branches(_, _)
Branches(body, current) ==
    IF body = <<>> THEN {current}
    ELSE IF Head(body) = Comma THEN {current} \cup Branches(Tail(body), <<>>)
    ELSE Branches(Tail(body), Append(current, Head(body)))

AltPrefix == IF pattern[1] = LBrace THEN <<>> ELSE <<pattern[1]>>

AltBody == SubSeq(pattern, Len(AltPrefix) + 2, Len(pattern) - 1)

AtEnd == result = Running /\ pos = Len(pattern)

\* The kind of failure that names the construct a state leaves open.
LeftOpen(tag) ==
    CASE tag = "Escape" -> "BareEscape"
      [] tag \in {"ClassStart", "Class", "ClassRange", "ClassRangeDash",
                  "ClassEscape"} -> "UnclosedClass"
      [] tag \in {"Alternate", "AlternateEscape"} -> "UnclosedAlternation"
      [] OTHER -> "none"

(***************************************************************************)
(* C11: after the last character the result is decided by the state        *)
(* alone: only Literal goes on to build the expression (the `$` is         *)
(* appended and the result is the one of Regex::new); Escape yields        *)
(* BareEscape, the five class states UnclosedClass, the two alternation    *)
(* states UnclosedAlternation, the buffer untouched.  So `[a\` is          *)
(* UnclosedClass, a lone `\` BareEscape, `[0-9` UnclosedClass and `{a,b`   *)
(* UnclosedAlternation.                                                    *)
(***************************************************************************)
C11_EndOfInputByState ==
    [][AtEnd =>
         /\ state' = state
         /\ IF state.tag = "Literal"
            THEN /\ res' = res \o <<Dollar>>
                 /\ result'.kind \in {"Ok", "InvalidRegex"}
                 /\ result'.kind = "Ok" <=> RegexValid(res')
            ELSE /\ res' = res
                 /\ result' = Err(LeftOpen(state.tag), <<>>)
         /\ pattern = Str(<<"[", "a", "\\">>) => result'.kind = "UnclosedClass"
         /\ pattern = Str(<<"a", "\\">>) => result'.kind = "BareEscape"
         /\ pattern = Str(<<"[", "0", "-", "9">>) => result'.kind = "UnclosedClass"
         /\ pattern = Str(<<"{", "a", ",", "b">>)
                => result'.kind = "UnclosedAlternation"]_vars

C11_Witness ==
    /\ pattern = Str(<<"[", "a", "\\">>)
    /\ pos = Len(pattern)
    /\ state.tag = "ClassEscape"
    /\ result = Err("UnclosedClass", <<>>)

\* The step taken in state tag on the next character.
Reads(tag) == result = Running /\ pos < Len(pattern) /\ state.tag = tag

(***************************************************************************)
(* C12: in ClassRange with pending start x, on a next character y that is  *)
(* neither `]` nor `\`: y before x fails with ReversedRange(x, y); y = x   *)
(* pushes the single character x; y after x pushes Range(x, y); in the     *)
(* last two cases the state is Class again and nothing fails.              *)
(***************************************************************************)
C12_RangeOrder ==
    [][(Reads("ClassRange") /\ chr \notin {RBracket, Backslash}) =>
         LET x == state.start
             y == chr
         IN  /\ y < x => /\ result' = Err("ReversedRange", <<x, y>>)
                         /\ res' = res
             /\ y = x => /\ result' = Running
                         /\ state' = Class(Push(state.acc, Char(x)))
             /\ y > x => /\ result' = Running
                         /\ state' = Class(Push(state.acc, Range(x, y)))]_vars

C12_Witness ==
    /\ pattern = Str(<<"[", "0", "-", ".", "]">>)
    /\ pos = 4
    /\ result = Err("ReversedRange", <<Zero, Dot>>)

\* The last item of an accumulator that holds one.
LastItem(acc) == acc.items[Len(acc.items)]

\* The candidate characters for the class of the digits and the dash.
DigitsSigma == {Zero, Ord("5"), Ord("9"), Dash, Dot, Slash, Ord(":"), Ord("a")}

(***************************************************************************)
(* C13: in a class, a `-` directly after a completed range leads to        *)
(* ClassRangeDash with the items untouched.  There a `]` makes the dash a  *)
(* member and closes the class; any other character fails with             *)
(* RangeAfterRange carrying that range.  So [0-9-] compiles and accepts    *)
(* the digits and `-`, and [0-9-a] fails with RangeAfterRange('0', '9').   *)
(***************************************************************************)
C13_DashAfterRange ==
    [][/\ (Reads("Class") /\ chr = Dash /\ state.acc.items # <<>>
               /\ LastItem(state.acc).type = "Range")
           => /\ state' = ClassRangeDash(state.acc)
              /\ result' = Running
              /\ res' = res
       /\ Reads("ClassRangeDash")
           => IF chr = RBracket
              THEN /\ state' = Literal
                   /\ result' = Running
                   /\ res' = res \o close_class(
                                 ClassAccumulator(
                                     state.acc.negated,
                                     Append(state.acc.items, Char(Dash))))
              ELSE /\ LastItem(state.acc).type = "Range"
                   /\ result' = Err("RangeAfterRange",
                                    <<LastItem(state.acc).start,
                                      LastItem(state.acc).end>>)
                   /\ res' = res
       /\ (AtEnd /\ pattern = Str(<<"[", "0", "-", "9", "-", "]">>))
           => /\ result' = Ok
              /\ Accepted(res', DigitsSigma, 2)
                     = {<<c>> : c \in {Zero, Ord("5"), Ord("9"), Dash}}
       /\ (Reads("ClassRangeDash")
               /\ pattern = Str(<<"[", "0", "-", "9", "-", "a", "]">>))
           => result' = Err("RangeAfterRange", <<Zero, Ord("9")>>)]_vars

C13_Witness ==
    /\ pattern = Str(<<"[", "0", "-", "9", "-", "]">>)
    /\ Compiled
    /\ is_match(res, <<Dash>>)
    /\ is_match(res, <<Ord("5")>>)

\* The candidate characters for the classes that hold a bracket.
BracketSigma ==
    {RBracket, LBracket, Slash, Bang, Dash, Backslash, Caret, Ord("a"), Newline}

(***************************************************************************)
(* C14: a `]` directly after `[` or after `[!` is a member of the class    *)
(* and does not close it.  []] accepts exactly the string `]`; [!]]        *)
(* accepts every single character but `]` and `/`; [] and [!] fail with    *)
(* UnclosedClass.                                                          *)
(***************************************************************************)
C14_LeadingBracketIsMember ==
    [][/\ (Reads("ClassStart") /\ chr = RBracket)
           => /\ state' = Class(ClassAccumulator(FALSE, <<Char(RBracket)>>))
              /\ result' = Running
              /\ res' = res
       /\ (Reads("Class") /\ state.acc.items = <<>> /\ chr = RBracket)
           => /\ state' = Class(ClassAccumulator(state.acc.negated,
                                                 <<Char(RBracket)>>))
              /\ result' = Running
              /\ res' = res
       /\ (AtEnd /\ pattern = Str(<<"[", "]", "]">>))
           => /\ result' = Ok
              /\ Accepted(res', BracketSigma, 3) = {<<RBracket>>}
       /\ (AtEnd /\ pattern = Str(<<"[", "!", "]", "]">>))
           => /\ result' = Ok
              /\ Accepted(res', BracketSigma, 3)
                     = {<<c>> : c \in BracketSigma \ {RBracket, Slash}}
       /\ (AtEnd /\ pattern \in {Str(<<"[", "]">>), Str(<<"[", "!", "]">>)})
           => result' = Err("UnclosedClass", <<>>)]_vars

C14_Witness ==
    /\ pattern = Str(<<"[", "!", "]", "]">>)
    /\ Compiled
    /\ ~is_match(res, <<RBracket>>)
    /\ ~is_match(res, <<Slash>>)
    /\ is_match(res, <<Ord("a")>>)

(***************************************************************************)
(* Escapes.                                                                *)
(***************************************************************************)

\* The states in which the next character is the one a backslash escapes.
EscapeTags == {"Escape", "ClassEscape", "AlternateEscape"}

\* The control characters the eight letters denote: BEL, BS, ESC, FF, LF,
\* CR, HT, VT.
Denoted ==
    (Ord("a") :> 7) @@ (Ord("b") :> 8) @@ (Ord("e") :> 27) @@ (Ord("f") :> 12)
        @@ (Ord("n") :> 10) @@ (Ord("r") :> 13) @@ (Ord("t") :> 9)
        @@ (Ord("v") :> 11)

EscapeSigma(c) ==
    {c, map_letter_escape(c), Ord("a"), Ord("n"), Slash, Backslash, Newline}

(***************************************************************************)
(* C16: for every character c the pattern of a backslash and c compiles,   *)
(* the Escape state going back to Literal, and its matcher accepts         *)
(* exactly the one-character string map_letter_escape(c).                  *)
(***************************************************************************)
C16_EscapedCharIsLiteral ==
    (Done /\ pattern \in EscapeInputs)
        => /\ Compiled
           /\ state = Literal
           /\ Accepted(res, EscapeSigma(pattern[2]), 3)
                  = {<<map_letter_escape(pattern[2])>>}

(***************************************************************************)
(* C17: an unescaped `[` met in the Alternate state, and a `\` met in the  *)
(* ClassRange state, each fail with NotImplemented; the failure is the     *)
(* result of the call, which takes no further step, so no such pattern     *)
(* yields a matcher.                                                       *)
(***************************************************************************)
C17_NotImplemented ==
    [][/\ result = Running
       /\ ((Reads("Alternate") /\ chr = LBracket)
               \/ (Reads("ClassRange") /\ chr = Backslash))
           => /\ result'.kind = "NotImplemented"
              /\ res' = res
              /\ state' = state]_vars

C17_Witness ==
    /\ pattern = Str(<<"{", "a", "[", "}">>)
    /\ pos = 3
    /\ result.kind = "NotImplemented"

(***************************************************************************)
(* Nesting.                                                                *)
(***************************************************************************)

\* The part of s before its first c (all of s when it holds none).
RECURSIVE UpTo(_, _)
UpTo(s, c) ==
    IF s = <<>> \/ Head(s) = c THEN <<>> ELSE <<Head(s)>> \o UpTo(Tail(s), c)

\* The pattern opens a class with its first character and holds a `{`
\* before any `]` or `\`: the brace is met with the class open.
BraceInOpenClass ==
    /\ pattern # <<>>
    /\ pattern[1] = LBracket
    /\ LBrace \in Range1(UpTo(Tail(pattern), RBracket))
    /\ Backslash \notin Range1(UpTo(Tail(pattern), LBrace))

\* The pattern opens an alternation with its first character and holds a
\* second `{` before any `}`, `[` or `\`: the brace is met with the
\* alternation open.
BraceInOpenAlternate ==
    /\ pattern # <<>>
    /\ pattern[1] = LBrace
    /\ LBrace \in Range1(UpTo(Tail(pattern), RBrace))
    /\ {Backslash, LBracket} \cap Range1(UpTo(Tail(pattern), LBrace)) = {}

(***************************************************************************)
(* C18: a pattern with an unescaped `{` inside an open class, or inside    *)
(* an open alternation, never yields a matcher: the call returns a         *)
(* failure.                                                                *)
(***************************************************************************)
C18_NestingFails ==
    (Done /\ (BraceInOpenClass \/ BraceInOpenAlternate)) => ~Compiled

(***************************************************************************)
(* The scan as a whole.                                                    *)
(***************************************************************************)

\* The kinds of failure of a transition.
StepFailures == {"ReversedRange", "RangeAfterRange", "NotImplemented"}

(***************************************************************************)
(* C19: the pattern is consumed left to right, one character per step,     *)
(* never backwards.  While nothing has failed a step is always possible:   *)
(* each of the n characters takes one step, and the result is decided      *)
(* only after the n-th.  A failing transition on character k leaves the    *)
(* position at k with state and buffer untouched, its failure is the       *)
(* result, and no step follows it: no later character is examined and no   *)
(* matcher is returned.                                                    *)
(***************************************************************************)
SinglePassStep ==
    /\ result = Running
    /\ pattern' = pattern
    /\ IF pos < Len(pattern)
       THEN /\ pos' = pos + 1
            /\ \/ result' = Running
               \/ /\ result'.kind \in StepFailures
                  /\ state' = state
                  /\ res' = res
       ELSE /\ pos' = pos
            /\ result' # Running
            /\ result'.kind \notin StepFailures

\* The variants of State.
StateTags ==
    {"Literal", "Escape", "ClassStart", "Class", "ClassRange", "ClassRangeDash",
     "ClassEscape", "Alternate", "AlternateEscape"}

\* The match on the state has an arm that takes the next character.
CanStep == \E tag \in StateTags : Scanning(tag)

C19_SinglePass ==
    /\ [](/\ pos \in 0..Len(pattern)
          /\ (result = Running /\ pos < Len(pattern)) => CanStep
          /\ result.kind \in {"Ok", "InvalidRegex", "BareEscape", "UnclosedClass",
                              "UnclosedAlternation"} => pos = Len(pattern))
    /\ [][SinglePassStep]_vars

C19_Witness ==
    /\ pattern = Str(<<"[", "0", "-", "9", "-", "a", "]">>)
    /\ pos = 6
    /\ result = Err("RangeAfterRange", <<Zero, Ord("9")>>)
    /\ ~CanStep

\* s is a prefix of t.
IsPrefix(s, t) == Len(s) <= Len(t) /\ SubSeq(t, 1, Len(s)) = s

(***************************************************************************)
(* C20: the output buffer is append-only.  Before the first step it is     *)
(* the single character `^`; after every step its previous content is a    *)
(* prefix of its new content; a step that consumes a character and fails   *)
(* leaves it alone; and the end anchor `$` is appended by one step only,   *)
(* the one after the last character, and only when the final state is      *)
(* Literal: then the buffer is its previous content and `$`, otherwise it  *)
(* is unchanged.                                                           *)
(***************************************************************************)
C20_BufferAppendOnly ==
    /\ []((pos = 0 /\ result = Running) => res = <<Caret>>)
    /\ [](res # <<>> /\ Head(res) = Caret)
    /\ [](Compiled => res[Len(res)] = Dollar)
    /\ [][/\ IsPrefix(res, res')
          /\ result' \notin {Running, Ok} => (res' = res \/ AtEnd)
          /\ AtEnd => res' = IF state.tag = "Literal" THEN res \o <<Dollar>>
                             ELSE res]_vars

C20_Witness ==
    /\ pattern = Str(<<"l", "-", "[", "0", "-", "9", "]", "*", "-", "{", "g", ",",
                       "a", "w", "s", "}">>)
    /\ Compiled
    /\ res = Str(<<"^", "l", "-", "[", "0", "-", "9", "]", ".", "*", "-", "(",
                   "a", "w", "s", "|", "g", ")", "$">>)

(***************************************************************************)
(* The text of a class.                                                    *)
(***************************************************************************)

\* The candidate characters for a class over ClassChars.
ClassSigma == ClassChars \cup {Plus, Comma, Ord("5"), Ord("b"), Newline}

RECURSIVE WithoutDash(_)
WithoutDash(items) ==
    IF items = <<>> THEN <<>>
    ELSE IF Head(items) = Char(Dash) THEN WithoutDash(Tail(items))
    ELSE <<Head(items)>> \o WithoutDash(Tail(items))

AllButLast(s) == SubSeq(s, 1, Len(s) - 1)

(***************************************************************************)
(* C21: when the items handed to close_class hold the standalone           *)
(* character `-`, the text is the text of the same items without it, with  *)
(* one `-` put in directly before the closing `]`: the dash comes once,    *)
(* last, after the sorted characters and the sorted ranges.  Without a     *)
(* standalone dash no dash is added.  So a class of standalone characters  *)
(* (none of them `^`) accepts those characters and no other: the dash      *)
(* forms no range.                                                         *)
(***************************************************************************)
C21_DashLast ==
    state.tag \in ClosingTags =>
        LET acc  == Handed(state)
            out  == close_class(acc)
            rest == close_class([acc EXCEPT !.items = WithoutDash(acc.items)])
        IN  /\ Char(Dash) \in Range1(acc.items)
                => /\ out = AllButLast(rest) \o <<Dash, RBracket>>
                   /\ out[Len(out) - 1] = Dash
            /\ Char(Dash) \notin Range1(acc.items) => out = rest
            /\ (~acc.negated /\ Char(Caret) \notin Range1(acc.items)
                    /\ \A i \in 1..Len(acc.items) : acc.items[i].type = "Char")
                => Accepted(Anchored(out), ClassSigma, 2)
                       = {<<c>> : c \in (Covered(acc.items) \ {Slash}) \cap ClassSigma}

C21_Witness ==
    /\ state.tag = "ClassRange"
    /\ pattern = Str(<<"[", "+", "a", "-", "]">>)
    /\ close_class(Handed(state)) = Str(<<"[", "+", "a", "-", "]">>)

(***************************************************************************)
(* C22: a dash that cannot start a range is a member.  A `-` directly      *)
(* after `[` or after `[!` becomes the item Char('-'); a `]` met in        *)
(* ClassRange with pending start c pushes Char(c) and Char('-') and        *)
(* closes the class.  So [+a-] accepts exactly `+`, `a` and `-`.           *)
(***************************************************************************)
C22_LoneDashIsMember ==
    [][/\ (Reads("ClassStart") /\ chr = Dash)
           => /\ state' = Class(ClassAccumulator(FALSE, <<Char(Dash)>>))
              /\ result' = Running
       /\ (Reads("Class") /\ state.acc.items = <<>> /\ chr = Dash)
           => /\ state' = Class(ClassAccumulator(state.acc.negated,
                                                 <<Char(Dash)>>))
              /\ result' = Running
       /\ (Reads("ClassRange") /\ chr = RBracket)
           => /\ state' = Literal
              /\ result' = Running
              /\ res' = res \o close_class(
                            ClassAccumulator(
                                state.acc.negated,
                                state.acc.items
                                    \o <<Char(state.start), Char(Dash)>>))
       /\ (AtEnd /\ pattern = Str(<<"[", "+", "a", "-", "]">>))
           => /\ result' = Ok
              /\ Accepted(res', ClassSigma, 2)
                     = {<<Plus>>, <<Ord("a")>>, <<Dash>>}
       /\ (AtEnd /\ pattern \in {Str(<<"[", "-", "a", "]">>),
                                 Str(<<"[", "!", "-", "]">>)})
           => /\ result' = Ok
              /\ is_match(res', <<Dash>>) <=> pattern[2] = Dash]_vars

C22_Witness ==
    /\ pattern = Str(<<"[", "+", "a", "-", "]">>)
    /\ Compiled
    /\ is_match(res, <<Dash>>)
    /\ is_match(res, <<Plus>>)
    /\ ~is_match(res, <<Comma>>)

\* The candidate characters for the escapes in a class and in a branch.
EscapedSigma ==
    {Ord("a"), Ord("b"), Comma, Bang, Slash, Backslash, LBracket, RBracket,
     LBrace, RBrace, Dash}

(***************************************************************************)
(* C23: the character after a backslash in a class or in an alternation    *)
(* is data.  ClassEscape pushes the one item Char(map_letter_escape(c))    *)
(* and goes back to Class, the negation flag as it was; AlternateEscape    *)
(* appends map_letter_escape(c) to the current branch and goes back to     *)
(* Alternate, the gathered branches as they were; neither fails nor        *)
(* writes.  So [\]] accepts exactly `]`, [\!a] accepts `!` and `a` and is  *)
(* not negated, [\\] accepts exactly `\`, {\,a} accepts exactly `,a`,      *)
(* {\}} exactly `}` and {\[} exactly `[`.                                  *)
(***************************************************************************)
C23_EscapedIsData ==
    [][/\ Reads("ClassEscape")
           => /\ state' = Class(ClassAccumulator(
                                    state.acc.negated,
                                    Append(state.acc.items,
                                           Char(map_letter_escape(chr)))))
              /\ result' = Running
              /\ res' = res
       /\ (Reads("ClassStart") /\ chr = Backslash)
           => state' = ClassEscape(ClassAccumulator(FALSE, <<>>))
       /\ Reads("AlternateEscape")
           => /\ state' = Alternate(Append(state.current, map_letter_escape(chr)),
                                    state.gathered)
              /\ result' = Running
              /\ res' = res
       /\ AtEnd =>
              LET accepted == Accepted(res', EscapedSigma, 3)
              IN  /\ pattern = Str(<<"[", "\\", "]", "]">>)
                         => result' = Ok /\ accepted = {<<RBracket>>}
                  /\ pattern = Str(<<"[", "\\", "!", "a", "]">>)
                         => result' = Ok /\ accepted = {<<Bang>>, <<Ord("a")>>}
                  /\ pattern = Str(<<"[", "\\", "\\", "]">>)
                         => result' = Ok /\ accepted = {<<Backslash>>}
                  /\ pattern = Str(<<"{", "\\", ",", "a", "}">>)
                         => result' = Ok /\ accepted = {<<Comma, Ord("a")>>}
                  /\ pattern = Str(<<"{", "\\", "}", "}">>)
                         => result' = Ok /\ accepted = {<<RBrace>>}
                  /\ pattern = Str(<<"{", "\\", "[", "}">>)
                         => result' = Ok /\ accepted = {<<LBracket>>}]_vars

C23_Witness ==
    /\ pattern = Str(<<"{", "\\", ",", "a", "}">>)
    /\ Compiled
    /\ is_match(res, <<Comma, Ord("a")>>)
    /\ ~is_match(res, <<Ord("a")>>)

(***************************************************************************)
(* C24: a `}` met in Alternate with an empty current branch and no         *)
(* gathered branch appends `{` and `}` as literal text, each through       *)
(* push_escaped, and goes back to Literal: {} accepts exactly the string   *)
(* `{}`.  In every other case the `}` pushes the current branch and        *)
(* appends the parenthesized group of close_alternate.                     *)
(***************************************************************************)
C24_EmptyBracesAreLiteral ==
    [][/\ (Reads("Alternate") /\ chr = RBrace)
           => /\ state' = Literal
              /\ result' = Running
              /\ IF state.current = <<>> /\ state.gathered = <<>>
                 THEN res' = res \o <<Backslash, LBrace, RBrace>>
                 ELSE /\ res' = res \o close_alternate(
                                       state.gathered \o <<state.current>>)
                      /\ Emitted[1] = LParen
                      /\ Emitted[Len(Emitted)] = RParen
       /\ (AtEnd /\ pattern = <<LBrace, RBrace>>)
           => /\ result' = Ok
              /\ Accepted(res', EscapedSigma, 3) = {<<LBrace, RBrace>>}]_vars

C24_Witness ==
    /\ pattern = <<LBrace, RBrace>>
    /\ Compiled
    /\ res = <<Caret, Backslash, LBrace, RBrace, Dollar>>
    /\ is_match(res, <<LBrace, RBrace>>)

\* The items try_flatten is to give over the sequence o, in order.
RECURSIVE Flattened(_)
Flattened(o) ==
    IF o = <<>> THEN <<>>
    ELSE (IF IsOk(Head(o))
          THEN [i \in 1..Len(Head(o).ok) |-> OkOf(Head(o).ok[i])]
          ELSE <<ErrOf(Head(o).err)>>) \o Flattened(Tail(o))

\* The place in o of the element that gives the k-th item.
Origin(o, k) ==
    CHOOSE n \in 1..Len(o) :
        /\ Len(Flattened(SubSeq(o, 1, n))) >= k
        /\ Len(Flattened(SubSeq(o, 1, n - 1))) < k

(***************************************************************************)
(* C25: the k-th call of next() returns the k-th item of the flattened     *)
(* sequence, Ok(x) for the items of the Ok elements in order and Err(e)    *)
(* for each Err element, going on after an error; once there is no k-th    *)
(* item it returns None.  The wrapped iterator is advanced only when the   *)
(* current inner is exhausted, and exactly up to the element that gives    *)
(* the item returned.                                                      *)
(***************************************************************************)
C25_FlattenInOrder ==
    [][/\ IF Len(yielded) < Len(Flattened(outer))
          THEN /\ returned' = Flattened(outer)[Len(yielded) + 1]
               /\ yielded' = Append(yielded, returned')
               /\ it' = SubSeq(outer, Origin(outer, Len(yielded')) + 1, Len(outer))
          ELSE /\ returned' = None
               /\ yielded' = yielded
               /\ it' = <<>>
       /\ it' # it => inner = <<>>
       /\ outer' = outer]_vars

C25_Witness ==
    /\ outer = OPT_ERR
    /\ returned = None
    /\ yielded = <<OkOf(1), OkOf(2), ErrOf("oof"), OkOf(3)>>
    /\ it = <<>>

\* The states that carry a class accumulator.
AccTags == {"Class", "ClassRange", "ClassRangeDash", "ClassEscape"}

(***************************************************************************)
(* C26: every Range(start, end) item of the accumulator of a reachable     *)
(* state has start < end, and so has every Range item that                 *)
(* handle_slash_exclude returns for the accumulator a closing `]` would    *)
(* hand to close_class: no reversed range and no range of one character    *)
(* is stored or serialized.                                                *)
(***************************************************************************)
C26_RangesAreStrict ==
    /\ state.tag \in AccTags
           => \A i \in 1..Len(state.acc.items) :
                  state.acc.items[i].type = "Range"
                      => state.acc.items[i].start < state.acc.items[i].end
    /\ (state.tag \in ClosingTags /\ ~state.acc.negated)
           => LET out == handle_slash_exclude(Handed(state)).items
              IN  \A i \in 1..Len(out) :
                      out[i].type = "Range" => out[i].start < out[i].end

C26_Witness ==
    /\ state.tag = "Class"
    /\ ~state.acc.negated
    /\ state.acc.items = <<Char(Ord("a")), Range(Bang, Slash)>>
    /\ handle_slash_exclude(state.acc).items = <<Char(Ord("a")), Range(Bang, Dot)>>

(***************************************************************************)
(* C27: every class that closes is written with at least one member        *)
(* between its brackets: the text a closing `]` appends is never `[]` and  *)
(* never `[^]`, whatever accumulator the step hands to close_class.        *)
(***************************************************************************)
C27_ClosedClassHasMember ==
    [][ClassCloses
          => /\ Emitted # <<LBracket, RBracket>>
             /\ Emitted # <<LBracket, Caret, RBracket>>]_vars

(***************************************************************************)
(* C28: in the text a closing `]` appends, the character right after the   *)
(* opening `[` is a `^` exactly when the accumulator is negated: a class   *)
(* that is not negated and has `^` among its members, alone, with other    *)
(* characters or as the start of a range, is not written with `^` first.   *)
(***************************************************************************)
C28_CaretFirstIffNegated ==
    [][ClassCloses
          => /\ Emitted[1] = LBracket
             /\ Emitted[2] = Caret <=> Handed(state).negated]_vars

\* The states in which a construct is open.
OpenTags == StateTags \ {"Literal"}

\* This step takes a character of the pattern.
TakesChar == result = Running /\ pos < Len(pattern)

(***************************************************************************)
(* C29: a step that takes a character and ends in a class state            *)
(* (ClassStart, Class, ClassRange, ClassRangeDash, ClassEscape), in        *)
(* Alternate or AlternateEscape, or in Escape leaves the buffer as it was, *)
(* and so does a step that fails.  The text of a class or an alternation   *)
(* is appended by the step that closes it, in one piece; while a construct *)
(* is open, or once a step has failed, the buffer holds no more than what  *)
(* it held when the construct was opened.                                  *)
(***************************************************************************)
C29_OpenConstructWritesNothing ==
    [][TakesChar
          => /\ state'.tag \in OpenTags => res' = res
             /\ result' # Running => res' = res
             /\ (state.tag \in OpenTags /\ state'.tag = "Literal"
                     /\ result' = Running)
                    => res' = res \o
                         (CASE state.tag \in ClosingTags -> close_class(Handed(state))
                            [] state.tag = "Alternate" ->
                                   IF state.current = <<>> /\ state.gathered = <<>>
                                   THEN <<Backslash, LBrace, RBrace>>
                                   ELSE close_alternate(
                                            Append(state.gathered, state.current))
                            [] state.tag = "Escape" ->
                                   push_escaped_special(<<>>, chr))]_vars

C29_Witness ==
    /\ pattern = Str(<<"l", "-", "[", "0", "-", "9", "]", "*", "-", "{", "g", ",",
                       "a", "w", "s", "}">>)
    /\ state.tag = "Alternate"
    /\ state.gathered = <<Str(<<"g">>)>>
    /\ state.current = Str(<<"a", "w">>)
    /\ res = Str(<<"^", "l", "-", "[", "0", "-", "9", "]", ".", "*", "-">>)

====
